---- MODULE Spec2Model ----
(***************************************************************************)
(* terminus: IPv4 subnet calculator.                                       *)
(*                                                                         *)
(* The model follows cmd/terminus/main.go (runRootCmd, determineIP) and    *)
(* iface/iface.go (GetAddr, GetParams, findInterface).  Strings are        *)
(* sequences of one-character strings, net.IP and net.IPMask are byte      *)
(* sequences (<<>> is nil), so that parsing, formatting and the byte-wise  *)
(* arithmetic of the net and iplib packages are computed, not assumed.     *)
(***************************************************************************)
EXTENDS Integers, Sequences, FiniteSets, TLC

(***************************************************************************)
(* Bounds of the model: how many sample addresses and host snapshots the   *)
(* inputs are drawn from.                                                  *)
(***************************************************************************)
NumAddrs == 6

NumHosts == 4

Min(a, b) == IF a < b THEN a ELSE b

Pow2(k) == 2 ^ k

(***************************************************************************)
(* Bitwise operations on naturals, used for ip[i] & mask[i] and by the     *)
(* properties, which are stated over 32-bit values.                        *)
(***************************************************************************)
RECURSIVE BitAnd(_, _)
BitAnd(x, y) ==
  IF x = 0 \/ y = 0 THEN 0
  ELSE (x % 2) * (y % 2) + 2 * BitAnd(x \div 2, y \div 2)

RECURSIVE BitOr(_, _)
BitOr(x, y) ==
  IF x = 0 THEN y
  ELSE IF y = 0 THEN x
  ELSE (IF x % 2 = 1 \/ y % 2 = 1 THEN 1 ELSE 0) + 2 * BitOr(x \div 2, y \div 2)

(***************************************************************************)
(* Text.                                                                   *)
(***************************************************************************)
Digits == <<"0", "1", "2", "3", "4", "5", "6", "7", "8", "9">>

IsDigit(c) == \E d \in 1..10 : Digits[d] = c

DigitVal(c) == (CHOOSE d \in 1..10 : Digits[d] = c) - 1

\* strconv / ubtoa: the decimal text of a natural number, no leading zeros
RECURSIVE Itoa(_)
Itoa(v) == IF v < 10 THEN <<Digits[v + 1]>> ELSE Itoa(v \div 10) \o <<Digits[(v % 10) + 1]>>

\* net.dtoi: decimal to integer; returns value, characters consumed, ok
big == Pow2(24) - 1

RECURSIVE dtoiFrom(_, _, _)
dtoiFrom(s, i, n) ==
  IF i <= Len(s) /\ IsDigit(s[i])
    THEN LET m == n * 10 + DigitVal(s[i])
         IN  IF m >= big THEN [n |-> big, i |-> i - 1, ok |-> FALSE]
             ELSE dtoiFrom(s, i + 1, m)
    ELSE IF i = 1 THEN [n |-> 0, i |-> 0, ok |-> FALSE]
         ELSE [n |-> n, i |-> i - 1, ok |-> TRUE]

dtoi(s) == dtoiFrom(s, 1, 0)

Tail0(s, k) == SubSeq(s, k + 1, Len(s))

\* index of the first occurrence of c in s, 0 when absent
IndexByte(s, c) ==
  IF \E i \in 1..Len(s) : s[i] = c
    THEN CHOOSE i \in 1..Len(s) : s[i] = c /\ \A j \in 1..(i - 1) : s[j] # c
    ELSE 0

(***************************************************************************)
(* Package net: IP, IPMask.                                                *)
(***************************************************************************)
v4InV6Prefix == <<0, 0, 0, 0, 0, 0, 0, 0, 0, 0, 255, 255>>

IPv4(a, b, c, d) == v4InV6Prefix \o <<a, b, c, d>>

To4(ip) ==
  IF Len(ip) = 4 THEN ip
  ELSE IF Len(ip) = 16 /\ SubSeq(ip, 1, 12) = v4InV6Prefix THEN SubSeq(ip, 13, 16)
  ELSE <<>>

\* IP.Equal: an IPv4 address and its 16-byte form are the same address
IPEqual(x, y) ==
  IF Len(x) = Len(y) THEN x = y
  ELSE IF Len(x) = 4 /\ Len(y) = 16 THEN SubSeq(y, 1, 12) = v4InV6Prefix /\ x = SubSeq(y, 13, 16)
  ELSE IF Len(x) = 16 /\ Len(y) = 4 THEN SubSeq(x, 1, 12) = v4InV6Prefix /\ y = SubSeq(x, 13, 16)
  ELSE FALSE

\* net.parseIPv4: four decimal octets separated by dots, none above 255,
\* none with a leading zero; <<>> (nil) otherwise
RECURSIVE parseIPv4From(_, _, _)
parseIPv4From(s, i, p) ==
  IF i = 4 THEN (IF Len(s) # 0 THEN <<>> ELSE IPv4(p[1], p[2], p[3], p[4]))
  ELSE IF Len(s) = 0 THEN <<>>
  ELSE IF i > 0 /\ s[1] # "." THEN <<>>
  ELSE LET t == IF i > 0 THEN Tail0(s, 1) ELSE s
           r == dtoi(t)
       IN  IF ~r.ok \/ r.n > 255 THEN <<>>
           ELSE IF r.i > 1 /\ t[1] = "0" THEN <<>>
           ELSE parseIPv4From(Tail0(t, r.i), i + 1, Append(p, r.n))

parseIPv4(s) == parseIPv4From(s, 0, <<>>)

\* net.ParseIP: the arguments of the model hold no ':' so only the
\* dotted-decimal branch is taken
ParseIP(s) == IF IndexByte(s, ":") # 0 THEN <<>> ELSE parseIPv4(s)

\* net.CIDRMask(ones, bits)
CIDRMask(ones, bits) ==
  IF bits \notin {32, 128} \/ ones < 0 \/ ones > bits THEN <<>>
  ELSE [i \in 1..(bits \div 8) |->
          LET n == ones - 8 * (i - 1)
          IN  IF n >= 8 THEN 255 ELSE IF n <= 0 THEN 0 ELSE 256 - Pow2(8 - n)]

\* number of leading one bits of a byte, -1 when the ones are not leading
ByteOnes(b) ==
  IF \E k \in 0..8 : b = 256 - Pow2(8 - k)
    THEN CHOOSE k \in 0..8 : b = 256 - Pow2(8 - k)
    ELSE -1

\* net.simpleMaskLength: -1 unless the mask is ones followed by zeros
RECURSIVE simpleMaskLength(_)
simpleMaskLength(mask) ==
  IF Len(mask) = 0 THEN 0
  ELSE IF mask[1] = 255
    THEN LET r == simpleMaskLength(Tail(mask)) IN IF r < 0 THEN -1 ELSE 8 + r
    ELSE IF ByteOnes(mask[1]) < 0 \/ \E j \in 2..Len(mask) : mask[j] # 0 THEN -1
         ELSE ByteOnes(mask[1])

\* IPMask.Size: (ones, bits), (0, 0) for a mask that is not canonical
MaskSize(mask) ==
  LET ones == simpleMaskLength(mask)
  IN  IF ones < 0 THEN [ones |-> 0, bits |-> 0]
      ELSE [ones |-> ones, bits |-> Len(mask) * 8]

classAMask == <<255, 0, 0, 0>>

classBMask == <<255, 255, 0, 0>>

classCMask == <<255, 255, 255, 0>>

\* IP.DefaultMask
DefaultMask(ip) ==
  LET ip4 == To4(ip)
  IN  IF ip4 = <<>> THEN <<>>
      ELSE IF ip4[1] < 128 THEN classAMask
      ELSE IF ip4[1] < 192 THEN classBMask
      ELSE classCMask

allFF(b) == \A i \in 1..Len(b) : b[i] = 255

\* IP.Mask
IPMaskOf(ip, mask) ==
  LET m == IF Len(mask) = 16 /\ Len(ip) = 4 /\ allFF(SubSeq(mask, 1, 12))
             THEN SubSeq(mask, 13, 16) ELSE mask
      p == IF Len(m) = 4 /\ Len(ip) = 16 /\ SubSeq(ip, 1, 12) = v4InV6Prefix
             THEN SubSeq(ip, 13, 16) ELSE ip
  IN  IF Len(p) # Len(m) THEN <<>>
      ELSE [i \in 1..Len(p) |-> BitAnd(p[i], m[i])]

\* IP.String for nil and IPv4 addresses; an IPv6 address is shown as its
\* bytes joined by ':' (no argument of the model is an IPv6 text)
RECURSIVE JoinBytes(_, _)
JoinBytes(b, sep) ==
  IF Len(b) = 0 THEN <<>>
  ELSE IF Len(b) = 1 THEN Itoa(b[1])
  ELSE Itoa(b[1]) \o <<sep>> \o JoinBytes(Tail(b), sep)

IPString(ip) ==
  IF Len(ip) = 0 THEN <<"<", "n", "i", "l", ">">>
  ELSE IF To4(ip) # <<>> THEN JoinBytes(To4(ip), ".")
  ELSE JoinBytes(ip, ":")

\* net.ParseCIDR: ok, the address as written, and the masked network
ParseCIDR(s) ==
  LET i == IndexByte(s, "/")
      addr == SubSeq(s, 1, i - 1)
      mask == Tail0(s, i)
      ip == parseIPv4(addr)
      r == dtoi(mask)
  IN  IF i = 0 THEN [ok |-> FALSE, ip |-> <<>>, net |-> [IP |-> <<>>, Mask |-> <<>>]]
      ELSE IF ip = <<>> \/ ~r.ok \/ r.i # Len(mask) \/ r.n < 0 \/ r.n > 32
        THEN [ok |-> FALSE, ip |-> <<>>, net |-> [IP |-> <<>>, Mask |-> <<>>]]
      ELSE LET m == CIDRMask(r.n, 32)
           IN  [ok |-> TRUE, ip |-> ip, net |-> [IP |-> IPMaskOf(ip, m), Mask |-> m]]

(***************************************************************************)
(* Go error values.  An error is <<>> (nil) or a one-element sequence      *)
(* holding its dynamic type, its own text and the error it wraps.  A text  *)
(* is a sequence of symbols: a literal phrase is one symbol, a name        *)
(* contributes its characters.                                            *)
(***************************************************************************)
errorString(text) == <<[type |-> "errorString", text |-> text, Err |-> <<>>]>>

OpError(op, netw, err) == <<[type |-> "OpError", text |-> <<op, " ", netw>>, Err |-> err]>>

SyscallError(call) ==
  <<[type |-> "SyscallError", text |-> <<call>>, Err |-> errorString(<<"errno">>)]>>

errInvalidInterface == errorString(<<"invalid network interface">>)

errInvalidInterfaceName == errorString(<<"invalid network interface name">>)

errNoSuchInterface == errorString(<<"no such network interface">>)

\* errors.Unwrap: the wrapped error of a type that has an Unwrap method,
\* nil for nil and for a plain errors.New value
Unwrap(err) ==
  IF err = <<>> THEN <<>>
  ELSE IF err[1].type \in {"OpError", "SyscallError"} THEN err[1].Err
  ELSE <<>>

\* err.Error()
RECURSIVE ErrorText(_)
ErrorText(err) ==
  IF err = <<>> THEN <<>>
  ELSE IF err[1].Err = <<>> THEN err[1].text
  ELSE err[1].text \o <<":", " ">> \o ErrorText(err[1].Err)

\* strings.Contains on texts
Contains(text, sub) ==
  \E i \in 0..(Len(text) - Len(sub)) : SubSeq(text, i + 1, i + Len(sub)) = sub

(***************************************************************************)
(* The host: the operating system's interface table, read by               *)
(* net.InterfaceByName, net.Interfaces and Interface.Addrs.                *)
(***************************************************************************)
IPNet(ip, ones, bits) == [typ |-> "IPNet", IP |-> ip, Mask |-> CIDRMask(ones, bits)]

Ifc(name, addrs, addrsErr) == [Name |-> name, addrs |-> addrs, addrsErr |-> addrsErr]

\* net.Interfaces
Interfaces(host) ==
  IF host.tableErr
    THEN [ifs |-> <<>>, err |-> OpError("route", "ip+net", SyscallError("netlinkrib"))]
    ELSE [ifs |-> host.ifs, err |-> <<>>]

\* net.InterfaceByName
InterfaceByName(host, name) ==
  IF name = <<>>
    THEN [found |-> FALSE, ifi |-> 0, err |-> OpError("route", "ip+net", errInvalidInterfaceName)]
  ELSE IF host.tableErr
    THEN [found |-> FALSE, ifi |-> 0, err |-> OpError("route", "ip+net", SyscallError("netlinkrib"))]
  ELSE IF \E k \in 1..Len(host.ifs) : host.ifs[k].Name = name
    THEN [found |-> TRUE,
          ifi |-> CHOOSE k \in 1..Len(host.ifs) :
                    host.ifs[k].Name = name /\ \A j \in 1..(k - 1) : host.ifs[j].Name # name,
          err |-> <<>>]
  ELSE [found |-> FALSE, ifi |-> 0, err |-> OpError("route", "ip+net", errNoSuchInterface)]

\* Interface.Addrs
Addrs(i) ==
  IF i.addrsErr
    THEN [addrs |-> <<>>, err |-> OpError("route", "ip+net", SyscallError("netlinkrib"))]
    ELSE [addrs |-> i.addrs, err |-> <<>>]

(***************************************************************************)
(* Package iplib (github.com/c-robinson/iplib v1.0.3), as called by        *)
(* determineIP, GetAddr and GetParams.                                     *)
(***************************************************************************)
EffectiveVersion(ip) ==
  IF Len(ip) = 0 THEN 0 ELSE IF To4(ip) # <<>> THEN 4 ELSE 6

\* iplib.NewNet
NewNet(ip, masklen) ==
  LET maskMax == IF EffectiveVersion(ip) = 6 THEN 128 ELSE 32
      mask == CIDRMask(masklen, maskMax)
  IN  [IP |-> IPMaskOf(ip, mask), Mask |-> mask,
       version |-> IF maskMax = 128 THEN 6 ELSE 4]

\* the zero value of iplib.Net
ZeroNet == [IP |-> <<>>, Mask |-> <<>>, version |-> 0]

\* Net.Wildcard: 0xff - b for every byte of the mask
Wildcard(n) == [i \in 1..Len(n.Mask) |-> 255 - n.Mask[i]]

\* Net.NetworkAddress
NetworkAddress(n) == n.IP

\* Net.finalAddress: the wildcard added to the network, byte by byte
finalAddress(n) ==
  LET wc == Wildcard(n)
  IN  [i \in 1..Len(n.IP) |-> (n.IP[i] + wc[i]) % 256]

\* Net.BroadcastAddress
BroadcastAddress(n) == finalAddress(n)

\* iplib.NextIP: increment with carry, unchanged at the end of the range
RECURSIVE incBytes(_)
incBytes(b) ==
  IF Len(b) = 0 THEN <<>>
  ELSE LET k == Len(b)
       IN  IF b[k] < 255 THEN [b EXCEPT ![k] = b[k] + 1]
           ELSE incBytes(SubSeq(b, 1, k - 1)) \o <<0>>

NextIP(ip) ==
  LET b == IF To4(ip) # <<>> THEN To4(ip) ELSE ip
  IN  IF allFF(b) THEN ip ELSE incBytes(b)

\* iplib.PreviousIP: decrement with borrow, unchanged at the start
RECURSIVE decBytes(_)
decBytes(b) ==
  IF Len(b) = 0 THEN <<>>
  ELSE LET k == Len(b)
       IN  IF b[k] > 0 THEN [b EXCEPT ![k] = b[k] - 1]
           ELSE decBytes(SubSeq(b, 1, k - 1)) \o <<255>>

PreviousIP(ip) ==
  LET b == IF To4(ip) # <<>> THEN To4(ip) ELSE ip
  IN  IF \A i \in 1..Len(b) : b[i] = 0 THEN ip ELSE decBytes(b)

\* Net.FirstAddress: the network address itself for /31 and /32
FirstAddress(n) ==
  LET ones == MaskSize(n.Mask).ones
  IN  IF ones >= 31 THEN n.IP ELSE NextIP(n.IP)

\* Net.LastAddress: the final address itself for /31 and /32
LastAddress(n) ==
  LET ones == MaskSize(n.Mask).ones
  IN  IF ones >= 31 THEN finalAddress(n) ELSE PreviousIP(finalAddress(n))

\* Net.Version
Version(n) == n.version

\* Numbers wider than the checker's integers are kept as two 16-bit limbs:
\* W(hi, lo) is hi * 2^16 + lo with lo in 0..65535 (hi is negative for a
\* negative number).
W(hi, lo) == [hi |-> hi + (lo \div 65536), lo |-> lo % 65536]

WAdd(a, k) == W(a.hi, a.lo + k)

WLess(a, b) == a.hi < b.hi \/ (a.hi = b.hi /\ a.lo < b.lo)

\* reduction modulo 2^32: the result of an operation on uint32 values
WrapU32(a) == [hi |-> a.hi % 65536, lo |-> a.lo]

\* int(x) of a uint32 x on a build whose int has 64 bits: the value itself
IntOfU32(a) == a

\* 2^k as a wide number, k in 0..32
WPow2(k) == IF k >= 16 THEN W(Pow2(k - 16), 0) ELSE W(0, Pow2(k))

\* the 32-bit value of an IPv4 address
IPToW(ip) == LET b == To4(ip) IN W(b[1] * 256 + b[2], b[3] * 256 + b[4])

\* uint32(math.Pow(2, exp)): exact for exp < 32; 2^32 is not representable
\* in uint32 and the conversion is implementation-dependent: conv is what
\* the build produces
Uint32OfPow2(exp, conv) == IF exp < 32 THEN WPow2(exp) ELSE conv

\* the outcomes of uint32(4294967296.0): 0 where the conversion truncates
\* (amd64), 2^32-1 where it saturates (arm64)
FloatConvOutcomes == {W(0, 0), W(65535, 65535)}

\* Net.Count4: usable IPv4 addresses, in uint32 arithmetic
Count4(n, conv) ==
  LET sz == MaskSize(n.Mask)
      exp == sz.bits - sz.ones
  IN  IF exp = 1 THEN W(0, 2)
      ELSE IF exp = 0 THEN W(0, 1)
      ELSE WrapU32(WAdd(Uint32OfPow2(exp, conv), -2))

\* Net.Count: Count4 for an IPv4 network
Count(n, conv) == Count4(n, conv)

(***************************************************************************)
(* iface/iface.go                                                          *)
(***************************************************************************)
\* firstIPv4From without the test bits == 32: the first *net.IPNet entry
RECURSIVE firstIPv4From_anyIPNet(_, _)
firstIPv4From_anyIPNet(addrs, k) ==
  IF k > Len(addrs) THEN 0
  ELSE IF addrs[k].typ = "IPNet" THEN k
  ELSE firstIPv4From_anyIPNet(addrs, k + 1)

\* the first entry at or after position k that is an *net.IPNet whose mask
\* has 32 bits; 0 when there is none
RECURSIVE firstIPv4From(_, _)
firstIPv4From(addrs, k) ==
  IF k > Len(addrs) THEN 0
  ELSE IF addrs[k].typ = "IPNet" /\ MaskSize(addrs[k].Mask).bits = 32 THEN k
  ELSE firstIPv4From(addrs, k + 1)

\* GetAddr unwrapping the error of the lookup twice
GetAddr_unwrapTwice(host, name) ==
  LET i == InterfaceByName(host, name)
  IN  IF i.err # <<>> THEN [ip |-> <<>>, n |-> ZeroNet, err |-> Unwrap(Unwrap(i.err))]
      ELSE LET a == Addrs(host.ifs[i.ifi])
           IN  IF a.err # <<>> THEN [ip |-> <<>>, n |-> ZeroNet, err |-> Unwrap(a.err)]
               ELSE LET k == firstIPv4From(a.addrs, 1)
                    IN  IF k # 0
                          THEN [ip |-> a.addrs[k].IP,
                                n |-> NewNet(a.addrs[k].IP, MaskSize(a.addrs[k].Mask).ones),
                                err |-> <<>>]
                          ELSE [ip |-> <<>>, n |-> ZeroNet,
                                err |-> errorString(<<"no IP address">>)]

\* GetAddr returns the first IPv4 unicast address for the interface
\* specified by name.
GetAddr(host, name) ==
  LET i == InterfaceByName(host, name)
  IN  IF i.err # <<>> THEN [ip |-> <<>>, n |-> ZeroNet, err |-> Unwrap(i.err)]
      ELSE LET a == Addrs(host.ifs[i.ifi])
           IN  IF a.err # <<>> THEN [ip |-> <<>>, n |-> ZeroNet, err |-> Unwrap(a.err)]
               ELSE LET k == firstIPv4From(a.addrs, 1)
                    IN  IF k # 0
                          THEN [ip |-> a.addrs[k].IP,
                                n |-> NewNet(a.addrs[k].IP, MaskSize(a.addrs[k].Mask).ones),
                                err |-> <<>>]
                          ELSE [ip |-> <<>>, n |-> ZeroNet,
                                err |-> errorString(<<"no IP address">>)]

\* does interface i hold ip among its *net.IPNet entries
holdsIP(i, ip) ==
  LET a == Addrs(i)
  IN  a.err = <<>> /\ \E k \in 1..Len(a.addrs) :
        a.addrs[k].typ = "IPNet" /\ IPEqual(ip, a.addrs[k].IP)

\* findInterfaceFrom giving up at the first interface whose addresses cannot
\* be read (return "" in place of continue)
RECURSIVE findInterfaceFrom_stopOnError(_, _, _)
findInterfaceFrom_stopOnError(ifs, k, ip) ==
  IF k > Len(ifs) THEN <<>>
  ELSE IF Addrs(ifs[k]).err # <<>> THEN <<>>
  ELSE IF holdsIP(ifs[k], ip) THEN ifs[k].Name
  ELSE findInterfaceFrom_stopOnError(ifs, k + 1, ip)

\* findInterface: the name of the first interface bound to ip, "" when the
\* interfaces cannot be listed or none is bound to it; an interface whose
\* addresses cannot be read is skipped
RECURSIVE findInterfaceFrom(_, _, _)
findInterfaceFrom(ifs, k, ip) ==
  IF k > Len(ifs) THEN <<>>
  ELSE IF holdsIP(ifs[k], ip) THEN ifs[k].Name
  ELSE findInterfaceFrom(ifs, k + 1, ip)

findInterface(host, ip) ==
  LET l == Interfaces(host)
  IN  IF l.err # <<>> THEN <<>> ELSE findInterfaceFrom(l.ifs, 1, ip)

\* strings.SplitN(s, "/", 2)[0]
SplitFirst(s) ==
  LET i == IndexByte(s, "/") IN IF i = 0 THEN s ELSE SubSeq(s, 1, i - 1)

\* reverseLookup comparing the address text with the whole argument
reverseLookup_noSplit(name, ip) == IPString(ip) = name

\* the condition under which GetParams looks the interface up by address:
\* ip.String() == strings.SplitN(name, "/", 2)[0]
reverseLookup(name, ip) == IPString(ip) = SplitFirst(name)

\* the name entry of GetParams
paramName(host, name, ip) ==
  IF reverseLookup(name, ip) THEN findInterface(host, ip) ELSE name

\* paramSize without the branch for /31
paramSize_no31(n, size, conv) ==
  IF size = 32 THEN W(0, 1)
  ELSE IntOfU32(WrapU32(WAdd(Count4(n, conv), 2)))

\* paramSize without the branch for /32
paramSize_no32(n, size, conv) ==
  IF size = 31 THEN W(0, 2)
  ELSE IntOfU32(WrapU32(WAdd(Count4(n, conv), 2)))

\* the size entry of GetParams: int(n.Count4() + 2), then the special
\* handling for /32 and /31
paramSize(n, size, conv) ==
  IF size = 32 THEN W(0, 1)
  ELSE IF size = 31 THEN W(0, 2)
  ELSE IntOfU32(WrapU32(WAdd(Count4(n, conv), 2)))

\* GetParams taking the second result of mask.Size(), the number of bits,
\* for the prefix length
GetParams_bits(host, name, ip, mask, conv) ==
  LET size == MaskSize(mask).bits
      n == NewNet(ip, size)
  IN  [broadcast |-> BroadcastAddress(n),
       first |-> FirstAddress(n),
       name |-> paramName(host, name, ip),
       network |-> NetworkAddress(n),
       ip |-> ip,
       last |-> LastAddress(n),
       netmask |-> mask,
       prefix |-> size,
       size |-> paramSize(n, size, conv),
       usable |-> IntOfU32(Count(n, conv)),
       version |-> Version(n),
       wildcard |-> Wildcard(n)]

\* GetParams storing the broadcast address as the last address
GetParams_lastBroadcast(host, name, ip, mask, conv) ==
  LET size == MaskSize(mask).ones
      n == NewNet(ip, size)
  IN  [broadcast |-> BroadcastAddress(n),
       first |-> FirstAddress(n),
       name |-> paramName(host, name, ip),
       network |-> NetworkAddress(n),
       ip |-> ip,
       last |-> BroadcastAddress(n),
       netmask |-> mask,
       prefix |-> size,
       size |-> paramSize(n, size, conv),
       usable |-> IntOfU32(Count(n, conv)),
       version |-> Version(n),
       wildcard |-> Wildcard(n)]

\* GetParams returns the parameters for the specified IP.
GetParams(host, name, ip, mask, conv) ==
  LET size == MaskSize(mask).ones
      n == NewNet(ip, size)
  IN  [broadcast |-> BroadcastAddress(n),
       first |-> FirstAddress(n),
       name |-> paramName(host, name, ip),
       network |-> NetworkAddress(n),
       ip |-> ip,
       last |-> LastAddress(n),
       netmask |-> mask,
       prefix |-> size,
       size |-> paramSize(n, size, conv),
       usable |-> IntOfU32(Count(n, conv)),
       version |-> Version(n),
       wildcard |-> Wildcard(n)]

(***************************************************************************)
(* cmd/terminus/main.go                                                    *)
(***************************************************************************)
\* determineIP giving every bare address the prefix 24
determineIP_classless(host, arg) ==
  LET ip == ParseIP(arg)
      c == ParseCIDR(arg)
      g == GetAddr(host, arg)
  IN  IF ip # <<>>
        THEN [ip |-> ip, n |-> NewNet(ip, 24), err |-> <<>>,
              calls |-> <<"ParseIP">>]
      ELSE IF c.ok
        THEN [ip |-> c.ip, n |-> NewNet(c.ip, MaskSize(c.net.Mask).ones), err |-> <<>>,
              calls |-> <<"ParseIP", "ParseCIDR">>]
      ELSE IF g.err # <<>>
        THEN [ip |-> <<>>, n |-> g.n, err |-> g.err,
              calls |-> <<"ParseIP", "ParseCIDR", "GetAddr">>]
      ELSE [ip |-> g.ip, n |-> g.n, err |-> <<>>,
            calls |-> <<"ParseIP", "ParseCIDR", "GetAddr">>]

\* determineIP returning the network address of the parsed CIDR, ipNet.IP,
\* in place of the address
determineIP_networkIP(host, arg) ==
  LET ip == ParseIP(arg)
      c == ParseCIDR(arg)
      g == GetAddr(host, arg)
  IN  IF ip # <<>>
        THEN [ip |-> ip, n |-> NewNet(ip, MaskSize(DefaultMask(ip)).ones), err |-> <<>>,
              calls |-> <<"ParseIP">>]
      ELSE IF c.ok
        THEN [ip |-> c.net.IP, n |-> NewNet(c.net.IP, MaskSize(c.net.Mask).ones),
              err |-> <<>>, calls |-> <<"ParseIP", "ParseCIDR">>]
      ELSE IF g.err # <<>>
        THEN [ip |-> <<>>, n |-> g.n, err |-> g.err,
              calls |-> <<"ParseIP", "ParseCIDR", "GetAddr">>]
      ELSE [ip |-> g.ip, n |-> g.n, err |-> <<>>,
            calls |-> <<"ParseIP", "ParseCIDR", "GetAddr">>]

\* determineIP: a bare address gets its class default mask, a CIDR its own
\* prefix, anything else is looked up as an interface name.  calls lists the
\* functions called on the way.
determineIP(host, arg) ==
  LET ip == ParseIP(arg)
      c == ParseCIDR(arg)
      g == GetAddr(host, arg)
  IN  IF ip # <<>>
        THEN [ip |-> ip, n |-> NewNet(ip, MaskSize(DefaultMask(ip)).ones), err |-> <<>>,
              calls |-> <<"ParseIP">>]
      ELSE IF c.ok
        THEN [ip |-> c.ip, n |-> NewNet(c.ip, MaskSize(c.net.Mask).ones), err |-> <<>>,
              calls |-> <<"ParseIP", "ParseCIDR">>]
      ELSE IF g.err # <<>>
        THEN [ip |-> <<>>, n |-> g.n, err |-> g.err,
              calls |-> <<"ParseIP", "ParseCIDR", "GetAddr">>]
      ELSE [ip |-> g.ip, n |-> g.n, err |-> <<>>,
            calls |-> <<"ParseIP", "ParseCIDR", "GetAddr">>]

\* byte order of the characters that occur in the model's texts
Alphabet ==
  <<".", "/", "0", "1", "2", "3", "4", "5", "6", "7", "8", "9", ":",
    "a", "b", "c", "d", "e", "f", "g", "h", "i", "j", "k", "l", "m",
    "n", "o", "p", "q", "r", "s", "t", "u", "v", "w", "x", "y", "z">>

Ord(c) == CHOOSE k \in 1..Len(Alphabet) : Alphabet[k] = c

\* a < b on strings
RECURSIVE LessStr(_, _)
LessStr(a, b) ==
  IF Len(b) = 0 THEN FALSE
  ELSE IF Len(a) = 0 THEN TRUE
  ELSE IF a[1] # b[1] THEN Ord(a[1]) < Ord(b[1])
  ELSE LessStr(Tail(a), Tail(b))

\* sort.Slice(is, func(i, j) { return is[i].Name < is[j].Name })
RECURSIVE insertByName(_, _)
insertByName(sorted, i) ==
  IF Len(sorted) = 0 THEN <<i>>
  ELSE IF LessStr(i.Name, sorted[1].Name) THEN <<i>> \o sorted
  ELSE <<sorted[1]>> \o insertByName(Tail(sorted), i)

RECURSIVE sortByName(_)
sortByName(ifs) ==
  IF Len(ifs) = 0 THEN <<>> ELSE insertByName(sortByName(Tail(ifs)), ifs[1])

\* the lines of listInterfaces for the (sorted) interfaces from position k
RECURSIVE listLinesFrom(_, _, _, _)
listLinesFrom(host, is, k, conv) ==
  IF k > Len(is) THEN <<>>
  ELSE LET r == determineIP(host, is[k].Name)
           data == GetParams(host, is[k].Name, r.ip, r.n.Mask, conv)
           rest == listLinesFrom(host, is, k + 1, conv)
       IN  IF r.err = <<>>
             THEN <<[name |-> data.name, ip |-> data.ip, network |-> data.network,
                     prefix |-> data.prefix]>> \o rest
             ELSE rest

\* listInterfaces: fatal when the interfaces cannot be listed
listInterfaces(host, conv) ==
  LET l == Interfaces(host)
  IN  IF l.err # <<>> THEN [fatal |-> TRUE, lines |-> <<>>]
      ELSE [fatal |-> FALSE, lines |-> listLinesFrom(host, sortByName(l.ifs), 1, conv)]

\* data[key] of the map handed to the formatting layer, nil when absent
Lookup(data, key) == IF key \in DOMAIN data THEN data[key] ELSE <<>>

\* printTemplate with a template that refers to .interfaces: the map of the
\* parameters of every interface, errors of GetAddr ignored
RECURSIVE ifByNameFrom(_, _, _, _)
ifByNameFrom(host, is, k, conv) ==
  IF k > Len(is) THEN <<>>
  ELSE LET g == GetAddr(host, is[k].Name)
       IN  <<[key |-> is[k].Name,
              val |-> GetParams(host, is[k].Name, g.ip, g.n.Mask, conv)]>>
           \o ifByNameFrom(host, is, k + 1, conv)

\* what one visited flag writes
formatFlag(host, fl, f, data, conv) ==
  IF f = "range"
    THEN [key |-> f, val |-> <<Lookup(data, "network"), Lookup(data, "broadcast")>>]
  ELSE IF f = "template"
    THEN [key |-> f,
          val |-> IF fl.template = "ifaces"
                    THEN <<data, ifByNameFrom(host, Interfaces(host).ifs, 1, conv)>>
                    ELSE <<data>>]
  ELSE [key |-> f, val |-> <<Lookup(data, f)>>]

RECURSIVE formatFrom(_, _, _, _, _)
formatFrom(host, fl, k, data, conv) ==
  IF k > Len(fl.show) THEN <<>>
  ELSE <<formatFlag(host, fl, fl.show[k], data, conv)>> \o formatFrom(host, fl, k + 1, data, conv)

(***************************************************************************)
(* Inputs: command-line arguments, flags and host snapshots.               *)
(***************************************************************************)
SampleAddrs ==
  << <<192, 168, 0, 1>>, <<127, 255, 255, 255>>, <<10, 0, 0, 138>>,
     <<172, 16, 57, 200>>, <<0, 0, 0, 0>>, <<255, 255, 255, 255>>,
     <<127, 0, 0, 1>>, <<224, 0, 0, 251>> >>

Addrs4 == {SampleAddrs[k] : k \in 1..Min(NumAddrs, Len(SampleAddrs))}

\* the dotted-decimal text of four octets
Dotted(a) ==
  Itoa(a[1]) \o <<".">> \o Itoa(a[2]) \o <<".">> \o Itoa(a[3]) \o <<".">> \o Itoa(a[4])

BareArgs == {Dotted(a) : a \in Addrs4}

CIDRArgs == {Dotted(a) \o <<"/">> \o Itoa(p) : a \in Addrs4, p \in 0..32}

lo == <<"l", "o">>

eth0 == <<"e", "t", "h", "0">>

tun0 == <<"t", "u", "n", "0">>

wlan9 == <<"w", "l", "a", "n", "9">>

\* interface names, the empty string, and texts that are neither an
\* address nor a CIDR: 256.0.0.1, 1.2.3, 01.2.3.4, 10.0.0.1/33, 10.0.0.1/
OtherArgs ==
  { lo, eth0, tun0, wlan9, <<>>,
    <<"2", "5", "6", ".", "0", ".", "0", ".", "1">>,
    <<"1", ".", "2", ".", "3">>,
    <<"0", "1", ".", "2", ".", "3", ".", "4">>,
    <<"1", "0", ".", "0", ".", "0", ".", "1", "/", "3", "3">>,
    <<"1", "0", ".", "0", ".", "0", ".", "1", "/">> }

Args == BareArgs \cup CIDRArgs \cup OtherArgs

ip6loop == <<0, 0, 0, 0, 0, 0, 0, 0, 0, 0, 0, 0, 0, 0, 0, 1>>

ip6link == <<254, 128, 0, 0, 0, 0, 0, 0, 0, 0, 0, 0, 0, 0, 0, 1>>

SampleHosts ==
  << \* IPv4 first, as Linux lists them
     [tableErr |-> FALSE,
      ifs |-> << Ifc(lo, <<IPNet(IPv4(127, 0, 0, 1), 8, 32), IPNet(ip6loop, 128, 128)>>, FALSE),
                 Ifc(eth0, <<IPNet(IPv4(172, 16, 57, 200), 23, 32), IPNet(ip6link, 64, 128)>>, FALSE),
                 Ifc(tun0, <<>>, FALSE) >>],
     \* IPv6 first, several IPv4 addresses, an interface without IPv4
     [tableErr |-> FALSE,
      ifs |-> << Ifc(tun0, <<IPNet(ip6link, 64, 128)>>, FALSE),
                 Ifc(lo, <<IPNet(ip6loop, 128, 128), IPNet(IPv4(127, 0, 0, 1), 8, 32),
                           IPNet(ip6link, 64, 128)>>, FALSE),
                 Ifc(eth0, <<IPNet(ip6link, 64, 128), IPNet(IPv4(10, 0, 0, 138), 30, 32),
                             IPNet(IPv4(192, 168, 0, 1), 24, 32)>>, FALSE) >>],
     \* the addresses of one interface cannot be read
     [tableErr |-> FALSE,
      ifs |-> << Ifc(lo, <<IPNet(IPv4(127, 0, 0, 1), 8, 32)>>, TRUE),
                 Ifc(eth0, <<IPNet(IPv4(192, 168, 0, 1), 24, 32),
                             IPNet(IPv4(127, 0, 0, 1), 32, 32)>>, FALSE) >>],
     \* the interfaces cannot be listed
     [tableErr |-> TRUE,
      ifs |-> << Ifc(lo, <<IPNet(IPv4(127, 0, 0, 1), 8, 32)>>, FALSE) >>],
     \* point-to-point prefixes
     [tableErr |-> FALSE,
      ifs |-> << Ifc(eth0, <<IPNet(IPv4(10, 0, 0, 138), 31, 32)>>, FALSE),
                 Ifc(lo, <<IPNet(IPv4(127, 0, 0, 1), 32, 32)>>, FALSE) >>] >>

Hosts == {SampleHosts[k] : k \in 1..Min(NumHosts, Len(SampleHosts))}

\* the flags of an invocation: show lists the visited flags in order
Flag(version, list, template, show) ==
  [version |-> version, list |-> list, template |-> template, show |-> show]

FlagSets ==
  { Flag(FALSE, FALSE, "", <<"ip", "prefix">>),
    Flag(FALSE, FALSE, "", <<"range", "size", "usable", "name">>),
    Flag(FALSE, FALSE, "plain", <<"template">>),
    Flag(FALSE, FALSE, "ifaces", <<"template">>),
    Flag(FALSE, FALSE, "bad", <<"first", "template">>),
    Flag(TRUE, FALSE, "", <<"version">>),
    Flag(FALSE, TRUE, "", <<"list-interfaces">>),
    Flag(TRUE, TRUE, "", <<"list-interfaces", "version">>) }

(***************************************************************************)
(* The state of one invocation.                                            *)
(***************************************************************************)
VARIABLES
  pc,      \* position in runRootCmd
  host,    \* the host's interface table
  conv,    \* what the build yields for uint32(4294967296.0)
  args,    \* the positional arguments: <<>> or <<arg>>
  flags,   \* the flags of the invocation
  res,     \* what determineIP returned
  data,    \* the map returned by GetParams
  trace,   \* the functions called so far
  out,     \* what was printed to standard output
  errout,  \* what was printed to standard error
  status   \* exit status, -1 while running

vars == <<pc, host, conv, args, flags, res, data, trace, out, errout, status>>

NoRes == [ip |-> <<>>, n |-> ZeroNet, err |-> <<>>, calls |-> <<>>]

NoFlags == Flag(FALSE, FALSE, "", <<>>)

Init ==
  /\ pc = "start"
  /\ host \in Hosts
  /\ conv \in FloatConvOutcomes
  /\ args \in {<<>>} \cup {<<a>> : a \in Args}
  /\ flags = NoFlags
  /\ res = NoRes
  /\ data = <<>>
  /\ trace = <<>>
  /\ out = <<>>
  /\ errout = <<>>
  /\ status = -1

\* runRootCmd, case version: print the version and return
PrintVersion ==
  /\ pc = "start"
  /\ \E fl \in FlagSets :
       /\ fl.version
       /\ flags' = fl
  /\ errout' = <<"terminus version">>
  /\ pc' = "done"
  /\ status' = 0
  /\ UNCHANGED <<host, conv, args, res, data, trace, out>>

\* runRootCmd, case list-interfaces: print the list and return
ListInterfaces ==
  /\ pc = "start"
  /\ \E fl \in FlagSets :
       /\ ~fl.version /\ fl.list
       /\ flags' = fl
  /\ LET l == listInterfaces(host, conv)
     IN  IF l.fatal
           THEN /\ errout' = ErrorText(Interfaces(host).err)
                /\ out' = out
                /\ pc' = "exit"
                /\ status' = 1
           ELSE /\ out' = l.lines
                /\ errout' = errout
                /\ pc' = "done"
                /\ status' = 0
  /\ trace' = trace \o <<"listInterfaces">>
  /\ UNCHANGED <<host, conv, args, res, data>>

\* runRootCmd, case no argument: usage and exit status 1
Usage ==
  /\ pc = "start"
  /\ \E fl \in FlagSets :
       /\ ~fl.version /\ ~fl.list /\ fl.template # "ifaces"
       /\ flags' = fl
  /\ Len(args) = 0
  /\ errout' = <<"usage">>
  /\ pc' = "exit"
  /\ status' = 1
  /\ UNCHANGED <<host, conv, args, res, data, trace, out>>

\* runRootCmd without an argument and with a template that refers to
\* .interfaces: the data stays empty
NoArgument ==
  /\ pc = "start"
  /\ \E fl \in FlagSets :
       /\ ~fl.version /\ ~fl.list /\ fl.template = "ifaces"
       /\ flags' = fl
  /\ Len(args) = 0
  /\ pc' = "params"
  /\ UNCHANGED <<host, conv, args, res, data, trace, out, errout, status>>

\* Resolve discarding the error of determineIP: ip, n, _ := determineIP(arg)
Resolve_ignoreErr ==
  /\ pc = "start"
  /\ \E fl \in FlagSets :
       /\ ~fl.version /\ ~fl.list
       /\ flags' = fl
  /\ Len(args) > 0
  /\ LET r == determineIP(host, args[Len(args)])
     IN  /\ res' = r
         /\ trace' = trace \o <<"determineIP">> \o r.calls
         /\ pc' = "resolved"
  /\ UNCHANGED <<host, conv, args, data, out, errout, status>>

\* runRootCmd with an argument: ip, n, err := determineIP(arg)
Resolve ==
  /\ pc = "start"
  /\ \E fl \in FlagSets :
       /\ ~fl.version /\ ~fl.list
       /\ flags' = fl
  /\ Len(args) > 0
  /\ LET r == determineIP(host, args[Len(args)])
     IN  /\ res' = r
         /\ trace' = trace \o <<"determineIP">> \o r.calls
         /\ pc' = IF r.err # <<>> THEN "failed" ELSE "resolved"
  /\ UNCHANGED <<host, conv, args, data, out, errout, status>>

\* log.Fatal(err): the message on standard error, exit status 1
Fatal ==
  /\ pc = "failed"
  /\ errout' = ErrorText(res.err)
  /\ pc' = "exit"
  /\ status' = 1
  /\ UNCHANGED <<host, conv, args, flags, res, data, trace, out>>

\* data = iface.GetParams(arg, ip, n.Mask)
Params ==
  /\ pc = "resolved"
  /\ data' = GetParams(host, args[Len(args)], res.ip, res.n.Mask, conv)
  /\ trace' = trace \o <<"GetParams">>
                \o (IF reverseLookup(args[Len(args)], res.ip) THEN <<"findInterface">> ELSE <<>>)
  /\ pc' = "params"
  /\ UNCHANGED <<host, conv, args, flags, res, out, errout, status>>

\* cmd.Flags().Visit(...) and fmt.Print(s); a template that does not parse
\* is fatal before anything is printed
Format ==
  /\ pc = "params"
  /\ IF flags.template = "bad"
       THEN /\ errout' = <<"template">>
            /\ out' = out
            /\ pc' = "exit"
            /\ status' = 1
       ELSE /\ out' = formatFrom(host, flags, 1, data, conv)
            /\ errout' = errout
            /\ pc' = "done"
            /\ status' = 0
  /\ trace' = trace \o <<"format">>
  /\ UNCHANGED <<host, conv, args, flags, res, data>>

Next ==
  \/ PrintVersion
  \/ ListInterfaces
  \/ Usage
  \/ NoArgument
  \/ Resolve
  \/ Fatal
  \/ Params
  \/ Format

Spec == Init /\ [][Next]_vars

(***************************************************************************)
(* Properties.                                                             *)
(***************************************************************************)
Called(f) == \E i \in 1..Len(trace) : trace[i] = f

\* GetParams has returned the map for the resolved address and mask
HasData == Called("GetParams")

\* the mask GetParams was called with is the contiguous mask of length p
MaskIs(p) == res.n.Mask = CIDRMask(p, 32)

\* the argument is the text a/p
ArgIsCIDR(a, p) == args = <<Dotted(a) \o <<"/">> \o Itoa(p)>>

\* the argument is the text of a
ArgIsBare(a) == args = <<Dotted(a)>>

\* x AND m, byte by byte
AndBytes(x, m) == [i \in 1..4 |-> BitAnd(x[i], m[i])]

\* x OR m, byte by byte
OrBytes(x, m) == [i \in 1..4 |-> BitOr(x[i], m[i])]

\* w is the bitwise complement of m
IsComplement(w, m) ==
  /\ Len(w) = 4 /\ Len(m) = 4
  /\ \A i \in 1..4 : BitAnd(w[i], m[i]) = 0 /\ BitOr(w[i], m[i]) = 255

\* C1: for every address and every prefix length p in 0..30 the size entry
\* of GetParams is 2^(32-p); for p = 0 that is 4294967296.
C1_SizeIsPowerOfTwo ==
  \A p \in 0..30 : (HasData /\ MaskIs(p)) => data.size = WPow2(32 - p)

\* C2: for every address and every prefix length p in 0..30 the usable
\* entry of GetParams is the size entry of the same record minus 2.
C2_UsableIsSizeMinusTwo ==
  \A p \in 0..30 : (HasData /\ MaskIs(p)) => data.usable = WAdd(data.size, -2)

\* C3: with prefix length 31 GetParams returns size 2, usable 2, first equal
\* to the network address and last equal to the broadcast address.
C3_Prefix31 ==
  (HasData /\ MaskIs(31)) =>
     /\ data.size = W(0, 2)
     /\ data.usable = W(0, 2)
     /\ IPEqual(data.first, data.network)
     /\ IPEqual(data.last, data.broadcast)
     /\ data.network = AndBytes(To4(res.ip), CIDRMask(31, 32))
     /\ IPToW(data.broadcast) = WAdd(IPToW(data.network), 1)

C3_Witness ==
  /\ HasData /\ MaskIs(31)
  /\ ArgIsCIDR(<<10, 0, 0, 138>>, 31)
  /\ data.first = <<10, 0, 0, 138>>
  /\ data.last = <<10, 0, 0, 139>>
  /\ data.size = W(0, 2)

\* C4: with prefix length 32 GetParams returns size 1, usable 1, and first,
\* last, network and broadcast all equal to the input address.
C4_Prefix32 ==
  (HasData /\ MaskIs(32)) =>
     /\ data.size = W(0, 1)
     /\ data.usable = W(0, 1)
     /\ IPEqual(data.first, res.ip)
     /\ IPEqual(data.last, res.ip)
     /\ IPEqual(data.network, res.ip)
     /\ IPEqual(data.broadcast, res.ip)

C4_Witness ==
  /\ HasData /\ MaskIs(32)
  /\ ArgIsCIDR(<<192, 168, 0, 1>>, 32)
  /\ data.broadcast = <<192, 168, 0, 1>>
  /\ data.size = W(0, 1)

\* C5: for every address and every contiguous mask of length p in 0..32,
\* network = address AND mask, wildcard = NOT mask, network AND wildcard = 0
\* and network OR wildcard = broadcast, bitwise over the 32 bits.
C5_MaskAlgebra ==
  \A p \in 0..32 : (HasData /\ MaskIs(p)) =>
     /\ data.netmask = CIDRMask(p, 32)
     /\ data.network = AndBytes(To4(res.ip), data.netmask)
     /\ IsComplement(data.wildcard, data.netmask)
     /\ AndBytes(data.network, data.wildcard) = <<0, 0, 0, 0>>
     /\ OrBytes(data.network, data.wildcard) = data.broadcast

C5_Witness ==
  /\ HasData /\ MaskIs(23)
  /\ ArgIsCIDR(<<172, 16, 57, 200>>, 23)
  /\ data.network = <<172, 16, 56, 0>>
  /\ data.wildcard = <<0, 0, 1, 255>>
  /\ data.broadcast = <<172, 16, 57, 255>>

\* C6: for every address and every prefix length p in 0..30, first is
\* network + 1 and last is broadcast - 1 as 32-bit integers, so that
\* network < first <= last < broadcast.
C6_FirstLast ==
  \A p \in 0..30 : (HasData /\ MaskIs(p)) =>
     /\ Len(data.first) = 4 /\ Len(data.last) = 4
     /\ IPToW(data.first) = WAdd(IPToW(data.network), 1)
     /\ IPToW(data.last) = WAdd(IPToW(data.broadcast), -1)
     /\ WLess(IPToW(data.network), IPToW(data.first))
     /\ ~WLess(IPToW(data.last), IPToW(data.first))
     /\ WLess(IPToW(data.last), IPToW(data.broadcast))

C6_Witness ==
  /\ HasData /\ MaskIs(30)
  /\ ArgIsCIDR(<<10, 0, 0, 138>>, 30)
  /\ data.network = <<10, 0, 0, 136>>
  /\ data.first = <<10, 0, 0, 137>>
  /\ data.last = <<10, 0, 0, 138>>
  /\ data.broadcast = <<10, 0, 0, 139>>

\* determineIP has returned for the argument
Resolved == Called("determineIP")

\* C7: for a bare dotted-decimal IPv4 address determineIP succeeds, returns
\* that address unchanged, and assigns the class default prefix: 8 below
\* 128, 16 in 128..191, 24 in 192..223; the net is the address masked by
\* that prefix.
C7_BareAddressClassPrefix ==
  \A a \in Addrs4 : (Resolved /\ ArgIsBare(a)) =>
     /\ res.err = <<>>
     /\ To4(res.ip) = a
     /\ IPString(res.ip) = args[1]
     /\ a[1] < 128 => res.n.Mask = CIDRMask(8, 32)
     /\ (128 <= a[1] /\ a[1] <= 191) => res.n.Mask = CIDRMask(16, 32)
     /\ (192 <= a[1] /\ a[1] <= 223) => res.n.Mask = CIDRMask(24, 32)
     /\ Len(res.n.Mask) = 4
     /\ res.n.IP = AndBytes(a, res.n.Mask)

C7_Witness ==
  /\ Resolved /\ ArgIsBare(<<172, 16, 57, 200>>)
  /\ res.err = <<>>
  /\ res.n.IP = <<172, 16, 0, 0>>
  /\ res.n.Mask = <<255, 255, 0, 0>>

\* C8: for an argument that is not a bare address but parses as CIDR a/p,
\* determineIP returns the host address a as written (not the network
\* address), a net whose mask has exactly p leading one bits and whose IP
\* is a AND mask, and no error; the interface lookup is not attempted.
C8_CIDRKeepsHostAddress ==
  \A a \in Addrs4, p \in 0..32 : (Resolved /\ ArgIsCIDR(a, p)) =>
     /\ res.err = <<>>
     /\ To4(res.ip) = a
     /\ res.n.Mask = CIDRMask(p, 32)
     /\ MaskSize(res.n.Mask) = [ones |-> p, bits |-> 32]
     /\ res.n.IP = AndBytes(a, CIDRMask(p, 32))
     /\ ~Called("GetAddr")

C8_Witness ==
  /\ Resolved /\ ArgIsCIDR(<<172, 16, 57, 200>>, 23)
  /\ To4(res.ip) = <<172, 16, 57, 200>>
  /\ res.n.IP = <<172, 16, 56, 0>>
  /\ ~Called("GetAddr")

\* the argument names interface k of a host whose table and whose addresses
\* can be read
NamesInterface(k) ==
  /\ ~host.tableErr
  /\ k \in 1..Len(host.ifs)
  /\ args = <<host.ifs[k].Name>>
  /\ ~host.ifs[k].addrsErr

\* entry e of an interface's address list is an IPv4 address
IsIPv4Entry(e) == To4(e.IP) # <<>> /\ Len(e.Mask) = 4

\* C9: GetAddr on an existing interface returns the first address in
\* enumeration order that is an IPv4 address, skipping every other entry
\* before it, with the prefix length of its configured mask; without an
\* IPv4 address it returns a 'no IP address' error and no address.
C9_FirstIPv4Address ==
  \A k \in 1..Len(host.ifs) : (Called("GetAddr") /\ NamesInterface(k)) =>
     LET addrs == host.ifs[k].addrs
     IN  /\ \A j \in 1..Len(addrs) :
               (IsIPv4Entry(addrs[j]) /\ \A h \in 1..(j - 1) : ~IsIPv4Entry(addrs[h])) =>
                  /\ res.err = <<>>
                  /\ res.ip = addrs[j].IP
                  /\ res.n.Mask = addrs[j].Mask
                  /\ res.n.IP = AndBytes(To4(addrs[j].IP), addrs[j].Mask)
         /\ (\A j \in 1..Len(addrs) : ~IsIPv4Entry(addrs[j])) =>
               /\ res.err # <<>>
               /\ ErrorText(res.err) = <<"no IP address">>
               /\ res.ip = <<>>

C9_Witness ==
  /\ Called("GetAddr")
  /\ host = SampleHosts[2]
  /\ NamesInterface(3)
  /\ ~IsIPv4Entry(host.ifs[3].addrs[1])
  /\ To4(res.ip) = <<10, 0, 0, 138>>
  /\ res.n.Mask = <<255, 255, 255, 252>>

\* the argument is a non-empty text that is neither an address nor a CIDR
\* and names no interface of a host whose table can be read
NamesNoInterface ==
  /\ Len(args) = 1 /\ args[1] # <<>>
  /\ ParseIP(args[1]) = <<>>
  /\ ~ParseCIDR(args[1]).ok
  /\ ~host.tableErr
  /\ \A k \in 1..Len(host.ifs) : host.ifs[k].Name # args[1]

\* C10: resolving an argument that is neither an address nor a CIDR and
\* names no existing interface yields the interface-not-found error, whose
\* message names the missing interface.
C10_NotFoundNamesInterface ==
  (Resolved /\ NamesNoInterface) =>
     /\ res.err # <<>>
     /\ Contains(ErrorText(res.err), <<"no such network interface">>)
     /\ Contains(ErrorText(res.err), args[1])

\* interface k of the host can be read and holds the address ip
BoundTo(k, ip) ==
  /\ ~host.ifs[k].addrsErr
  /\ \E j \in 1..Len(host.ifs[k].addrs) : To4(host.ifs[k].addrs[j].IP) = To4(ip)

\* the name the reverse scan must give: the first interface that can be
\* read and holds ip; empty when the interfaces cannot be listed or no such
\* interface exists
ScanName(ip) ==
  IF host.tableErr \/ ~\E k \in 1..Len(host.ifs) : BoundTo(k, ip) THEN <<>>
  ELSE host.ifs[CHOOSE k \in 1..Len(host.ifs) :
                  BoundTo(k, ip) /\ \A j \in 1..(k - 1) : ~BoundTo(j, ip)].Name

\* C11 as stated: the reverse lookup is performed exactly when the argument
\* is textually identical to the string form of the address; for every
\* other argument name is the argument unchanged and no scan is done.
C11_LookupOnlyForBareAddress ==
  HasData =>
     /\ Called("findInterface") <=> (args[1] = Dotted(To4(res.ip)))
     /\ (args[1] # Dotted(To4(res.ip))) => data.name = args[1]

\* C11 amended: the reverse lookup is performed exactly when the string form
\* of the address equals the argument up to its first '/', that is for a
\* bare address and for a CIDR a/p; then name is the first interface bound
\* to exactly that address among those that can be read, or empty; for an
\* interface name, name is the argument unchanged and no scan is done.
C11_LookupForAddressAndCIDR ==
  HasData =>
     /\ Called("findInterface") <=> (args[1] \in BareArgs \cup CIDRArgs)
     /\ (args[1] \in BareArgs \cup CIDRArgs) =>
          /\ \E a \in Addrs4 : To4(res.ip) = a /\ (ArgIsBare(a) \/ \E p \in 0..32 : ArgIsCIDR(a, p))
          /\ data.name = ScanName(res.ip)
     /\ (args[1] \notin BareArgs \cup CIDRArgs) =>
          /\ \E k \in 1..Len(host.ifs) : host.ifs[k].Name = args[1]
          /\ data.name = args[1]

C11_Witness ==
  /\ HasData /\ Called("findInterface")
  /\ host = SampleHosts[1]
  /\ ArgIsCIDR(<<172, 16, 57, 200>>, 23)
  /\ data.name = eth0

\* determineIP has returned an error
ResolveFailed == Resolved /\ res.err # <<>>

\* C12: when determineIP fails in runRootCmd, the only step the invocation
\* can take is to report the error and exit with a non-zero status; neither
\* GetParams nor any output formatting is reached, before or after.
C12_ResolveErrorIsTerminal ==
  /\ [](ResolveFailed =>
          /\ ~Called("GetParams")
          /\ ~Called("findInterface")
          /\ ~Called("format")
          /\ out = <<>>
          /\ pc \in {"failed", "exit"}
          /\ pc = "failed" => ENABLED Fatal
          /\ pc = "exit" => (status = 1 /\ errout = ErrorText(res.err) /\ errout # <<>>))
  /\ [][ResolveFailed =>
          /\ pc = "failed"
          /\ pc' = "exit"
          /\ status' # 0 /\ status' # -1
          /\ errout' = ErrorText(res.err)
          /\ out' = <<>>
          /\ trace' = trace]_vars

C12_Witness ==
  /\ ResolveFailed
  /\ args = <<wlan9>>
  /\ pc = "exit"
  /\ status = 1
  /\ errout = <<"no such network interface">>

\* the host with every failure removed
Healthy(h) ==
  [tableErr |-> FALSE,
   ifs |-> [k \in 1..Len(h.ifs) |-> [h.ifs[k] EXCEPT !.addrsErr = FALSE]]]

\* listing the interfaces fails, or reading the addresses of one fails
LookupFailure == host.tableErr \/ \E k \in 1..Len(host.ifs) : host.ifs[k].addrsErr

Keys ==
  {"broadcast", "first", "ip", "last", "name", "netmask", "network", "prefix",
   "size", "usable", "version", "wildcard"}

\* C14: when listing the interfaces or reading one interface's addresses
\* fails during the reverse lookup, GetParams still returns a complete
\* record: a failure to list gives an empty name, a failure on one interface
\* only skips it (later interfaces are still scanned), and every other
\* field is what it is without the failure.
C14_LookupFailureDegrades ==
  (HasData /\ Called("findInterface") /\ LookupFailure) =>
     /\ DOMAIN data = Keys
     /\ host.tableErr => data.name = <<>>
     /\ ~host.tableErr => data.name = ScanName(res.ip)
     /\ \A k \in 1..Len(host.ifs) :
          (~host.tableErr /\ BoundTo(k, res.ip)) => data.name # <<>>
     /\ LET ok == GetParams(Healthy(host), args[1], res.ip, res.n.Mask, conv)
        IN  \A f \in Keys \ {"name"} : data[f] = ok[f]
     /\ data.network = AndBytes(To4(res.ip), res.n.Mask)
     /\ data.prefix = MaskSize(res.n.Mask).ones

C14_Witness ==
  /\ HasData /\ Called("findInterface")
  /\ host = SampleHosts[3]
  /\ host.ifs[1].addrsErr
  /\ ArgIsBare(<<192, 168, 0, 1>>)
  /\ data.name = eth0
  /\ data.network = <<192, 168, 0, 0>>

\* the lookup of the argument as an interface, or the reading of that
\* interface's addresses, fails
GetAddrFails ==
  \/ host.tableErr
  \/ args[1] = <<>>
  \/ \A k \in 1..Len(host.ifs) : host.ifs[k].Name # args[1]
  \/ \E k \in 1..Len(host.ifs) : host.ifs[k].Name = args[1] /\ host.ifs[k].addrsErr

\* C15: whenever the interface lookup or the address enumeration inside
\* GetAddr fails, GetAddr returns a non-nil error, never a nil error with an
\* empty address and the zero net.
C15_GetAddrFailureHasError ==
  (Called("GetAddr") /\ GetAddrFails) =>
     /\ res.err # <<>>
     /\ ErrorText(res.err) # <<>>
     /\ res.ip = <<>>
     /\ res.n = ZeroNet
     /\ pc \in {"failed", "exit"}

C15_Witness ==
  /\ Called("GetAddr")
  /\ host = SampleHosts[3]
  /\ args = <<lo>>
  /\ host.ifs[1].addrsErr
  /\ res.err = SyscallError("netlinkrib")
  /\ pc = "exit" /\ status = 1

====
